---------------------------- MODULE Spec2Model ----------------------------
(***************************************************************************)
(* Model of langSwitch-v1.5.py: resolution of a manifest of artifact URLs  *)
(* into an install plan, transfer of the planned artifacts, and the        *)
(* ordered installation stages with their halt-on-failure behaviour.       *)
(*                                                                         *)
(* Text is modelled character by character: a Python str is a sequence of  *)
(* one-character strings, so that unquote(), lower(), `in', endswith() and *)
(* Path(...).name are computed the way the code computes them.             *)
(***************************************************************************)
EXTENDS Naturals, Integers, Sequences, FiniteSets, TLC

\* Largest number of non-blank lines the input files hold together.
MaxLines == 3

(***************************************************************************)
(* Characters                                                              *)
(***************************************************************************)

\* The printable ASCII characters, chr(32) .. chr(126), in code order
\* (chr(96) is written "<grave>").
Ascii ==
    <<" ", "!", "\"", "#", "$", "%", "&", "'", "(", ")", "*", "+", ",",
      "-", ".", "/", "0", "1", "2", "3", "4", "5", "6", "7", "8", "9", ":",
      ";", "<", "=", ">", "?", "@", "A", "B", "C", "D", "E", "F", "G", "H",
      "I", "J", "K", "L", "M", "N", "O", "P", "Q", "R", "S", "T", "U", "V",
      "W", "X", "Y", "Z", "[", "\\", "]", "^", "_", "<grave>", "a", "b", "c",
      "d", "e", "f", "g", "h", "i", "j", "k", "l", "m", "n", "o", "p", "q",
      "r", "s", "t", "u", "v", "w", "x", "y", "z", "{", "|", "}", "~">>

\* chr(n); a code outside the printable range is one opaque character.
chr(n) ==
    IF n >= 32 /\ n <= 126 THEN Ascii[n - 31] ELSE "<np>"

\* str.lower() on one character: "A".."Z" are chr(65)..chr(90).
LowerChar(c) ==
    IF \E n \in 65..90 : chr(n) = c
    THEN chr((CHOOSE n \in 65..90 : chr(n) = c) + 32)
    ELSE c

\* str.lower()
lower(s) ==
    [i \in 1..Len(s) |-> LowerChar(s[i])]

HexDigits ==
    <<"0", "1", "2", "3", "4", "5", "6", "7", "8", "9",
      "a", "b", "c", "d", "e", "f", "A", "B", "C", "D", "E", "F">>

IsHex(c) ==
    \E i \in 1..Len(HexDigits) : HexDigits[i] = c

HexVal(c) ==
    LET i == CHOOSE j \in 1..Len(HexDigits) : HexDigits[j] = c
    IN  IF i <= 16 THEN i - 1 ELSE i - 7

\* urllib.parse.unquote(): "%XY" with two hex digits becomes chr(16*X + Y),
\* every other character (a lone "%" included) is kept.  An escape never
\* swallows a "%" (its two digits are hex digits), so the escapes of s are
\* the positions of a "%" followed by two hex digits.
IsEscape(s, i) ==
    /\ i >= 1
    /\ i + 2 <= Len(s)
    /\ s[i] = "%"
    /\ IsHex(s[i + 1])
    /\ IsHex(s[i + 2])

unquote(s) ==
    LET kept == SelectSeq([i \in 1..Len(s) |-> i],
                          LAMBDA i : ~IsEscape(s, i - 1) /\ ~IsEscape(s, i - 2))
    IN  [k \in 1..Len(kept) |->
            IF IsEscape(s, kept[k])
            THEN chr(16 * HexVal(s[kept[k] + 1]) + HexVal(s[kept[k] + 2]))
            ELSE s[kept[k]]]

\* Python's (p in s) on strings.
In(p, s) ==
    \E i \in 0..(Len(s) - Len(p)) : SubSeq(s, i + 1, i + Len(p)) = p

\* s.endswith(p)
endswith(s, p) ==
    /\ Len(p) <= Len(s)
    /\ SubSeq(s, Len(s) - Len(p) + 1, Len(s)) = p

\* Index of the first occurrence of p in s, 0 when there is none (str.find + 1).
find(s, p) ==
    IF In(p, s)
    THEN CHOOSE i \in 1..(Len(s) - Len(p) + 1) :
             /\ SubSeq(s, i, i + Len(p) - 1) = p
             /\ \A j \in 1..(i - 1) : SubSeq(s, j, j + Len(p) - 1) # p
    ELSE 0

\* Path separators of a Windows path.
IsSep(c) ==
    c = "/" \/ c = "\\"

\* Path(s).name: the last component of the path, trailing separators ignored.
PathName(s) ==
    LET ends == {i \in 1..Len(s) : ~IsSep(s[i])}
    IN  IF ends = {} THEN << >>
        ELSE LET e == CHOOSE i \in ends : \A j \in ends : j <= i
                 seps == {i \in 1..e : IsSep(s[i])}
                 b == IF seps = {} THEN 0
                      ELSE CHOOSE i \in seps : \A j \in seps : j <= i
             IN  SubSeq(s, b + 1, e)

(***************************************************************************)
(* String literals of the program                                          *)
(***************************************************************************)

\* "winpe"
S_winpe ==
    <<"w", "i", "n", "p", "e">>

\* "windows preinstallation environment"
S_windows_preinstallation_environment ==
    <<"w", "i", "n", "d", "o", "w", "s", " ", "p", "r", "e", "i", "n", "s",
      "t", "a", "l", "l", "a", "t", "i", "o", "n", " ", "e", "n", "v", "i",
      "r", "o", "n", "m", "e", "n", "t">>

\* "/localexperiencepack/"
S_localexperiencepack_seg ==
    <<"/", "l", "o", "c", "a", "l", "e", "x", "p", "e", "r", "i", "e", "n",
      "c", "e", "p", "a", "c", "k", "/">>

\* "/"
S_slash ==
    <<"/">>

\* ".appx"
S_appx ==
    <<".", "a", "p", "p", "x">>

\* "license.xml"
S_license_xml ==
    <<"l", "i", "c", "e", "n", "s", "e", ".", "x", "m", "l">>

\* "microsoft-windows-client-language-pack_"
S_client_language_pack ==
    <<"m", "i", "c", "r", "o", "s", "o", "f", "t", "-", "w", "i", "n", "d",
      "o", "w", "s", "-", "c", "l", "i", "e", "n", "t", "-", "l", "a", "n",
      "g", "u", "a", "g", "e", "-", "p", "a", "c", "k", "_">>

\* "_"
S_underscore ==
    <<"_">>

\* ".cab"
S_cab ==
    <<".", "c", "a", "b">>

\* "microsoft-windows-languagefeatures-"
S_languagefeatures ==
    <<"m", "i", "c", "r", "o", "s", "o", "f", "t", "-", "w", "i", "n", "d",
      "o", "w", "s", "-", "l", "a", "n", "g", "u", "a", "g", "e", "f", "e",
      "a", "t", "u", "r", "e", "s", "-">>

\* "-"
S_dash ==
    <<"-">>

\* "-package"
S_package ==
    <<"-", "p", "a", "c", "k", "a", "g", "e">>

\* "~"
S_tilde ==
    <<"~">>

\* "~~.cab"
S_tilde_cab ==
    <<"~", "~", ".", "c", "a", "b">>

\* "languagefeatures-basic-"
S_kw_basic ==
    <<"l", "a", "n", "g", "u", "a", "g", "e", "f", "e", "a", "t", "u", "r",
      "e", "s", "-", "b", "a", "s", "i", "c", "-">>

\* "languagefeatures-ocr-"
S_kw_ocr ==
    <<"l", "a", "n", "g", "u", "a", "g", "e", "f", "e", "a", "t", "u", "r",
      "e", "s", "-", "o", "c", "r", "-">>

\* "languagefeatures-texttospeech-"
S_kw_texttospeech ==
    <<"l", "a", "n", "g", "u", "a", "g", "e", "f", "e", "a", "t", "u", "r",
      "e", "s", "-", "t", "e", "x", "t", "t", "o", "s", "p", "e", "e", "c",
      "h", "-">>

\* "languagefeatures-fonts-"
S_kw_fonts ==
    <<"l", "a", "n", "g", "u", "a", "g", "e", "f", "e", "a", "t", "u", "r",
      "e", "s", "-", "f", "o", "n", "t", "s", "-">>

\* "languageexperiencepack"
S_languageexperiencepack ==
    <<"l", "a", "n", "g", "u", "a", "g", "e", "e", "x", "p", "e", "r", "i",
      "e", "n", "c", "e", "p", "a", "c", "k">>

\* "x64"
S_x64 ==
    <<"x", "6", "4">>

\* "amd64"
S_amd64 ==
    <<"a", "m", "d", "6", "4">>

\* "x86_64"
S_x86_64 ==
    <<"x", "8", "6", "_", "6", "4">>

\* "x86"
S_x86 ==
    <<"x", "8", "6">>

\* "i386"
S_i386 ==
    <<"i", "3", "8", "6">>

\* "i686"
S_i686 ==
    <<"i", "6", "8", "6">>

\* "arm64"
S_arm64 ==
    <<"a", "r", "m", "6", "4">>

\* "aarch64"
S_aarch64 ==
    <<"a", "a", "r", "c", "h", "6", "4">>

FOD_FEATURE_KEYWORDS ==
    <<S_kw_basic, S_kw_ocr, S_kw_texttospeech, S_kw_fonts>>

(***************************************************************************)
(* Inputs: machine names and the lines of the input files                  *)
(***************************************************************************)

\* "AMD64"
M_AMD64 ==
    <<"A", "M", "D", "6", "4">>

\* "ARM64"
M_ARM64 ==
    <<"A", "R", "M", "6", "4">>

\* "ia64"
M_ia64 ==
    <<"i", "a", "6", "4">>

\* "fr-fr"
L_fr_fr ==
    <<"f", "r", "-", "f", "r">>

\* "de-de"
L_de_de ==
    <<"d", "e", "-", "d", "e">>

\* "a/LocalExperiencePack/fr-fr/LanguageExperiencePack.fr-fr.Neutral.appx"
U_Lep ==
    <<"a", "/", "L", "o", "c", "a", "l", "E", "x", "p", "e", "r", "i", "e",
      "n", "c", "e", "P", "a", "c", "k", "/", "f", "r", "-", "f", "r", "/",
      "L", "a", "n", "g", "u", "a", "g", "e", "E", "x", "p", "e", "r", "i",
      "e", "n", "c", "e", "P", "a", "c", "k", ".", "f", "r", "-", "f", "r",
      ".", "N", "e", "u", "t", "r", "a", "l", ".", "a", "p", "p", "x">>

\* "a/LocalExperiencePack/fr-fr/License.xml"
U_Lic ==
    <<"a", "/", "L", "o", "c", "a", "l", "E", "x", "p", "e", "r", "i", "e",
      "n", "c", "e", "P", "a", "c", "k", "/", "f", "r", "-", "f", "r", "/",
      "L", "i", "c", "e", "n", "s", "e", ".", "x", "m", "l">>

\* "a/LocalExperiencePack/de-de/License.xml"
U_LicDe ==
    <<"a", "/", "L", "o", "c", "a", "l", "E", "x", "p", "e", "r", "i", "e",
      "n", "c", "e", "P", "a", "c", "k", "/", "d", "e", "-", "d", "e", "/",
      "L", "i", "c", "e", "n", "s", "e", ".", "x", "m", "l">>

\* "a/LocalExperiencePack/fr-fr/OEMLicense.xml"
U_OemLic ==
    <<"a", "/", "L", "o", "c", "a", "l", "E", "x", "p", "e", "r", "i", "e",
      "n", "c", "e", "P", "a", "c", "k", "/", "f", "r", "-", "f", "r", "/",
      "O", "E", "M", "L", "i", "c", "e", "n", "s", "e", ".", "x", "m", "l">>

\* "a/LocalExperiencePack/fr-fr/Microsoft-Windows-Client-Language-Pack_x64_fr-fr.cab"
U_LepCab ==
    <<"a", "/", "L", "o", "c", "a", "l", "E", "x", "p", "e", "r", "i", "e",
      "n", "c", "e", "P", "a", "c", "k", "/", "f", "r", "-", "f", "r", "/",
      "M", "i", "c", "r", "o", "s", "o", "f", "t", "-", "W", "i", "n", "d",
      "o", "w", "s", "-", "C", "l", "i", "e", "n", "t", "-", "L", "a", "n",
      "g", "u", "a", "g", "e", "-", "P", "a", "c", "k", "_", "x", "6", "4",
      "_", "f", "r", "-", "f", "r", ".", "c", "a", "b">>

\* "a/Microsoft-Windows-Client-Language-Pack_x64_fr-fr.cab"
U_Cab ==
    <<"a", "/", "M", "i", "c", "r", "o", "s", "o", "f", "t", "-", "W", "i",
      "n", "d", "o", "w", "s", "-", "C", "l", "i", "e", "n", "t", "-", "L",
      "a", "n", "g", "u", "a", "g", "e", "-", "P", "a", "c", "k", "_", "x",
      "6", "4", "_", "f", "r", "-", "f", "r", ".", "c", "a", "b">>

\* "a/Microsoft-Windows-Client-Language-Pack_arm64_fr-fr.cab"
U_CabArm ==
    <<"a", "/", "M", "i", "c", "r", "o", "s", "o", "f", "t", "-", "W", "i",
      "n", "d", "o", "w", "s", "-", "C", "l", "i", "e", "n", "t", "-", "L",
      "a", "n", "g", "u", "a", "g", "e", "-", "P", "a", "c", "k", "_", "a",
      "r", "m", "6", "4", "_", "f", "r", "-", "f", "r", ".", "c", "a", "b">>

\* "b/Microsoft-Windows-Client-Language-Pack_x64_fr-fr.cab"
U_CabMirror ==
    <<"b", "/", "M", "i", "c", "r", "o", "s", "o", "f", "t", "-", "W", "i",
      "n", "d", "o", "w", "s", "-", "C", "l", "i", "e", "n", "t", "-", "L",
      "a", "n", "g", "u", "a", "g", "e", "-", "P", "a", "c", "k", "_", "x",
      "6", "4", "_", "f", "r", "-", "f", "r", ".", "c", "a", "b">>

\* "a/Microsoft-Windows-LanguageFeatures-Basic-fr-fr-Package%7E31bf%7Eamd64%7E%7E.cab"
U_Fod ==
    <<"a", "/", "M", "i", "c", "r", "o", "s", "o", "f", "t", "-", "W", "i",
      "n", "d", "o", "w", "s", "-", "L", "a", "n", "g", "u", "a", "g", "e",
      "F", "e", "a", "t", "u", "r", "e", "s", "-", "B", "a", "s", "i", "c",
      "-", "f", "r", "-", "f", "r", "-", "P", "a", "c", "k", "a", "g", "e",
      "%", "7", "E", "3", "1", "b", "f", "%", "7", "E", "a", "m", "d", "6",
      "4", "%", "7", "E", "%", "7", "E", ".", "c", "a", "b">>

\* "a/Windows%20Preinstallation%20Environment/LocalExperiencePack/fr-fr/License.xml"
U_PeLic ==
    <<"a", "/", "W", "i", "n", "d", "o", "w", "s", "%", "2", "0", "P", "r",
      "e", "i", "n", "s", "t", "a", "l", "l", "a", "t", "i", "o", "n", "%",
      "2", "0", "E", "n", "v", "i", "r", "o", "n", "m", "e", "n", "t", "/",
      "L", "o", "c", "a", "l", "E", "x", "p", "e", "r", "i", "e", "n", "c",
      "e", "P", "a", "c", "k", "/", "f", "r", "-", "f", "r", "/", "L", "i",
      "c", "e", "n", "s", "e", ".", "x", "m", "l">>

\* "a/WinPE_OCs/Microsoft-Windows-Client-Language-Pack_x64_fr-fr.cab"
U_PeCab ==
    <<"a", "/", "W", "i", "n", "P", "E", "_", "O", "C", "s", "/", "M", "i",
      "c", "r", "o", "s", "o", "f", "t", "-", "W", "i", "n", "d", "o", "w",
      "s", "-", "C", "l", "i", "e", "n", "t", "-", "L", "a", "n", "g", "u",
      "a", "g", "e", "-", "P", "a", "c", "k", "_", "x", "6", "4", "_", "f",
      "r", "-", "f", "r", ".", "c", "a", "b">>

\* "a/readme.txt"
U_Readme ==
    <<"a", "/", "r", "e", "a", "d", "m", "e", ".", "t", "x", "t">>

\* "a/LocalExperiencePack/fr-fr/LXP.fr-fr.Neutral.appx"
U_PlainAppx ==
    <<"a", "/", "L", "o", "c", "a", "l", "E", "x", "p", "e", "r", "i", "e",
      "n", "c", "e", "P", "a", "c", "k", "/", "f", "r", "-", "f", "r", "/",
      "L", "X", "P", ".", "f", "r", "-", "f", "r", ".", "N", "e", "u", "t",
      "r", "a", "l", ".", "a", "p", "p", "x">>

\* "a/LanguageFeatures-Fonts-fr-fr/Microsoft-Windows-LanguageFeatures-Basic-fr-fr-Package%7E31bf%7Eamd64%7E%7E.cab"
U_FodTwo ==
    <<"a", "/", "L", "a", "n", "g", "u", "a", "g", "e", "F", "e", "a", "t",
      "u", "r", "e", "s", "-", "F", "o", "n", "t", "s", "-", "f", "r", "-",
      "f", "r", "/", "M", "i", "c", "r", "o", "s", "o", "f", "t", "-", "W",
      "i", "n", "d", "o", "w", "s", "-", "L", "a", "n", "g", "u", "a", "g",
      "e", "F", "e", "a", "t", "u", "r", "e", "s", "-", "B", "a", "s", "i",
      "c", "-", "f", "r", "-", "f", "r", "-", "P", "a", "c", "k", "a", "g",
      "e", "%", "7", "E", "3", "1", "b", "f", "%", "7", "E", "a", "m", "d",
      "6", "4", "%", "7", "E", "%", "7", "E", ".", "c", "a", "b">>

\* "en-us"
L_en_us ==
    <<"e", "n", "-", "u", "s">>

\* Every line the input files may hold, by name.
Pool ==
    {"Lep", "Lic", "LicDe", "OemLic", "LepCab", "Cab", "CabArm",
     "CabMirror", "Fod", "PeLic", "PeCab", "Readme", "PlainAppx", "FodTwo"}

\* The lines of the input files of the runs that stop after matching.
MatchPool ==
    Pool \ {"CabMirror", "PlainAppx"}

\* The lines of the input files of the installation runs.
RunPool ==
    {"Lep", "Lic", "OemLic", "Cab", "Fod", "PeLic"}

\* The lines of the input files of the first runs: two packages of the
\* experience-pack directory, and two references with one file name.
NamesPool ==
    {"Lep", "PlainAppx", "Lic", "Cab", "CabMirror"}

\* The text of a line.
Text(line) ==
    CASE line = "Lep" -> U_Lep
      [] line = "Lic" -> U_Lic
      [] line = "LicDe" -> U_LicDe
      [] line = "OemLic" -> U_OemLic
      [] line = "LepCab" -> U_LepCab
      [] line = "Cab" -> U_Cab
      [] line = "CabArm" -> U_CabArm
      [] line = "CabMirror" -> U_CabMirror
      [] line = "Fod" -> U_Fod
      [] line = "PeLic" -> U_PeLic
      [] line = "PeCab" -> U_PeCab
      [] line = "Readme" -> U_Readme
      [] line = "PlainAppx" -> U_PlainAppx
      [] line = "FodTwo" -> U_FodTwo

\* u = unquote(line) and l = u.lower() of every line, computed once.
Unquoted ==
    [line \in Pool |-> unquote(Text(line))]

Lowered ==
    [line \in Pool |-> lower(Unquoted[line])]

\* platform.machine() of the hosts considered.
Machines ==
    {M_AMD64, M_ARM64, M_ia64}

\* The user language lists the host may hold before the run.
HostLists ==
    {<<L_en_us>>, <<L_fr_fr, L_en_us>>, <<L_de_de, L_fr_fr, L_en_us>>}

\* Sequences over S of length at most n.
SeqUpTo(S, n) ==
    UNION {[1..k -> S] : k \in 0..n}

\* Those of them that hold no element twice.
DistinctSeqUpTo(S, n) ==
    {q \in SeqUpTo(S, n) : \A i, j \in 1..Len(q) : q[i] = q[j] => i = j}

(***************************************************************************)
(* Helpers of the program                                                  *)
(***************************************************************************)

\* list(dict.fromkeys(lines)): first occurrences, in order.
Dedupe(raw) ==
    SelectSeq([i \in 1..Len(raw) |-> <<i, raw[i]>>],
              LAMBDA p : \A j \in 1..(p[1] - 1) : raw[j] # p[2])

load_all_lines(raw) ==
    LET kept == Dedupe(raw)
    IN  [i \in 1..Len(kept) |-> kept[i][2]]

Unsupported == <<"unsupported">>

detect_arch(machine) ==
    LET m == lower(machine)
    IN  IF m \in {S_amd64, S_x86_64} THEN <<S_x64, S_amd64>>
        ELSE IF m \in {S_x86, S_i386, S_i686} THEN <<S_x86, S_x86>>
        ELSE IF m \in {S_arm64, S_aarch64} THEN <<S_arm64, S_arm64>>
        ELSE Unsupported

\* The languages one line contributes to extract_languages.
LangsOfLine(line) ==
    LET u == Lowered[line]
        seg == S_localexperiencepack_seg
        p == find(u, seg)
    IN  IF p = 0 THEN {}
        ELSE LET rest == SubSeq(u, p + Len(seg), Len(u))
                 q == find(rest, seg)
                 piece == IF q = 0 THEN rest ELSE SubSeq(rest, 1, q - 1)
                 r == find(piece, S_slash)
             IN  IF r = 0 THEN {} ELSE {SubSeq(piece, 1, r - 1)}

extract_languages(ls) ==
    UNION {LangsOfLine(ls[i]) : i \in 1..Len(ls)}

\* is_winpe without its second marker.
is_winpe_short(l) ==
    In(S_winpe, l)

is_winpe(l) ==
    In(S_winpe, l) \/ In(S_windows_preinstallation_environment, l)

(***************************************************************************)
(* The matching loop of main                                               *)
(***************************************************************************)

\* f"/localexperiencepack/{lang}/" in l
InExperienceDir(l, lang_) ==
    In(S_localexperiencepack_seg \o lang_ \o S_slash, l)

\* l.endswith(".appx") or l.endswith("license.xml")
HasPackageSuffix(l) ==
    endswith(l, S_appx) \/ endswith(l, S_license_xml)

\* The client language pack test with the architecture left out of it.
IsClientCab_AnyArch(l, arch_path_, lang_) ==
    \E a \in {S_x64, S_x86, S_arm64} :
        In(S_client_language_pack \o a \o S_underscore \o lang_ \o S_cab, l)

\* f"microsoft-windows-client-language-pack_{arch_path}_{lang}.cab" in l
IsClientCab(l, arch_path_, lang_) ==
    In(S_client_language_pack \o arch_path_ \o S_underscore \o lang_ \o S_cab, l)

\* The three-part condition of the feature-on-demand branch.
IsFeatureCab(l, lang_, arch_token_) ==
    /\ In(S_languagefeatures, l)
    /\ In(S_dash \o lang_ \o S_package, l)
    /\ In(S_tilde \o arch_token_ \o S_tilde_cab, l)

\* The keyword loop without its break: one append for every keyword in l.
ScanKeywords_All(line, l, k) ==
    LET hits == {j \in k..Len(FOD_FEATURE_KEYWORDS) :
                     In(FOD_FEATURE_KEYWORDS[j], l)}
    IN  [n \in 1..Cardinality(hits) |-> line]

\* for k in FOD_FEATURE_KEYWORDS: if k in l: found.append(line); break
RECURSIVE ScanKeywords(_, _, _)
ScanKeywords(line, l, k) ==
    IF k > Len(FOD_FEATURE_KEYWORDS) THEN << >>
    ELSE IF In(FOD_FEATURE_KEYWORDS[k], l) THEN <<line>>
    ELSE ScanKeywords(line, l, k + 1)

\* The loop body without its client language pack branch.
MatchLine_NoClientCab(line, lang_, arch_path_, arch_token_) ==
    LET l == Lowered[line]
    IN  IF is_winpe(l) THEN << >>
        ELSE IF InExperienceDir(l, lang_)
             THEN IF HasPackageSuffix(l) THEN <<line>> ELSE << >>
        ELSE IF IsFeatureCab(l, lang_, arch_token_)
             THEN ScanKeywords(line, l, 1)
        ELSE << >>

\* What one iteration of the loop appends to found.
MatchLine(line, lang_, arch_path_, arch_token_) ==
    LET l == Lowered[line]
    IN  IF is_winpe(l) THEN << >>
        ELSE IF InExperienceDir(l, lang_)
             THEN IF HasPackageSuffix(l) THEN <<line>> ELSE << >>
        ELSE IF IsClientCab(l, arch_path_, lang_) THEN <<line>>
        ELSE IF IsFeatureCab(l, lang_, arch_token_)
             THEN ScanKeywords(line, l, 1)
        ELSE << >>

RECURSIVE MatchFrom(_, _, _, _, _)
MatchFrom(ls, i, lang_, arch_path_, arch_token_) ==
    IF i > Len(ls) THEN << >>
    ELSE MatchLine(ls[i], lang_, arch_path_, arch_token_)
             \o MatchFrom(ls, i + 1, lang_, arch_path_, arch_token_)

Match(ls, lang_, arch_path_, arch_token_) ==
    MatchFrom(ls, 1, lang_, arch_path_, arch_token_)

(***************************************************************************)
(* Destinations of the transfer loop                                       *)
(***************************************************************************)

APPX_DIR == "appx"
CAB_DIR == "cab"

\* Path(unquote(url)).name
FileName(line) ==
    PathName(Unquoted[line])

\* name.lower().endswith(".appx") or name.lower() == "license.xml"
IsAppxName(name) ==
    endswith(lower(name), S_appx) \/ lower(name) = S_license_xml

\* dest of one planned url: <<directory, file name>>.
DestOf(line) ==
    LET name == FileName(line)
    IN  IF IsAppxName(name) THEN <<APPX_DIR, name>> ELSE <<CAB_DIR, name>>

\* The destinations of all lines, computed once.
Dest ==
    [line \in Pool |-> DestOf(line)]

(***************************************************************************)
(* The command of the user-locale step                                     *)
(***************************************************************************)

\* ps_cmd whose rebuild branch does not filter the previous list.
ps_cmd_unfiltered(extend_, preserve_, lang_) ==
    IF extend_
    THEN IF preserve_
         THEN <<[op |-> "Get", var |-> "list"],
                [op |-> "AddIfAbsent", var |-> "list"],
                [op |-> "Set", var |-> "list"],
                [op |-> "SetUI", var |-> "none"],
                [op |-> "SetLocale", var |-> "none"]>>
         ELSE <<[op |-> "Get", var |-> "list"],
                [op |-> "New", var |-> "new"],
                [op |-> "AddRange", var |-> "new"],
                [op |-> "Set", var |-> "new"],
                [op |-> "SetUI", var |-> "none"],
                [op |-> "SetLocale", var |-> "none"]>>
    ELSE <<[op |-> "SetUI", var |-> "none"],
           [op |-> "New", var |-> "list"],
           [op |-> "Set", var |-> "list"],
           [op |-> "SetLocale", var |-> "none"]>>

\* ps_cmd with the replace branch taken for the append branch.
ps_cmd_append(extend_, preserve_, lang_) ==
    IF extend_ /\ ~preserve_
    THEN <<[op |-> "GetWhereNe", var |-> "list"],
           [op |-> "New", var |-> "new"],
           [op |-> "AddRange", var |-> "new"],
           [op |-> "Set", var |-> "new"],
           [op |-> "SetUI", var |-> "none"],
           [op |-> "SetLocale", var |-> "none"]>>
    ELSE <<[op |-> "Get", var |-> "list"],
           [op |-> "AddIfAbsent", var |-> "list"],
           [op |-> "Set", var |-> "list"],
           [op |-> "SetUI", var |-> "none"],
           [op |-> "SetLocale", var |-> "none"]>>

\* ps_cmd as the sequence of its statements.
ps_cmd(extend_, preserve_, lang_) ==
    IF extend_
    THEN IF preserve_
         THEN <<[op |-> "Get", var |-> "list"],
                [op |-> "AddIfAbsent", var |-> "list"],
                [op |-> "Set", var |-> "list"],
                [op |-> "SetUI", var |-> "none"],
                [op |-> "SetLocale", var |-> "none"]>>
         ELSE <<[op |-> "GetWhereNe", var |-> "list"],
                [op |-> "New", var |-> "new"],
                [op |-> "AddRange", var |-> "new"],
                [op |-> "Set", var |-> "new"],
                [op |-> "SetUI", var |-> "none"],
                [op |-> "SetLocale", var |-> "none"]>>
    ELSE <<[op |-> "SetUI", var |-> "none"],
           [op |-> "New", var |-> "list"],
           [op |-> "Set", var |-> "list"],
           [op |-> "SetLocale", var |-> "none"]>>

\* The effect of one statement on the shell variables and the host settings.
PsStep(env, st, lang_) ==
    CASE st.op = "Get" ->
             [env EXCEPT !.list = env.host_list]
      [] st.op = "GetWhereNe" ->
             [env EXCEPT !.list = SelectSeq(env.host_list, LAMBDA t : t # lang_)]
      [] st.op = "AddIfAbsent" ->
             IF \E i \in 1..Len(env.list) : env.list[i] = lang_
             THEN env
             ELSE [env EXCEPT !.list = Append(env.list, lang_)]
      [] st.op = "New" ->
             [env EXCEPT ![st.var] = <<lang_>>]
      [] st.op = "AddRange" ->
             [env EXCEPT !.new = env.new \o env.list]
      [] st.op = "Set" ->
             [env EXCEPT !.host_list = env[st.var]]
      [] st.op = "SetUI" ->
             [env EXCEPT !.ui = lang_]
      [] st.op = "SetLocale" ->
             [env EXCEPT !.locale = lang_]

\* The first k statements of a command, executed in order.  The exit status
\* of "powershell -Command" is that of the last statement: a command that
\* exits non-zero has executed every statement but the last.
RECURSIVE PsRun(_, _, _, _)
PsRun(stmts, k, env, lang_) ==
    IF k = 0 THEN env
    ELSE PsStep(PsRun(stmts, k - 1, env, lang_), stmts[k], lang_)

(***************************************************************************)
(* State                                                                   *)
(***************************************************************************)

VARIABLES
    pc,                     \* position of the run in main
    DRY_RUN,                \* "--dry-run" in sys.argv
    files,                  \* the non-blank lines of INPUT_FILES, in order
    machine,                \* platform.machine()
    lines,
    arch_path,
    arch_token,
    langs,
    lang,
    preserve,
    extend,
    found,
    next_url,               \* position of the transfer loop in found
    appx_files,
    cab_files,
    cab_i,                  \* position of the install loop in cab_files
    disk,                   \* the files below DOWNLOAD_ROOT
    partial,                \* the files on disk a failed transfer left behind
    transfers,              \* the urls this run opened on the network
    invocations,            \* the commands this run started through run()
    fail_msg,               \* the message logged at level FAIL
    acknowledged,           \* input() of pause_exit has returned
    exit_code,
    list_before,            \* the host's user language list before the command
    WinUserLanguageList,
    WinUILanguageOverride,
    WinSystemLocale,
    WelcomeLanguage,
    rebooted,
    done_plans              \* the plans an earlier run has transferred completely

config == <<files, machine>>
selection == <<lines, arch_path, arch_token, langs, lang, preserve, extend>>
plan == <<found, next_url, appx_files, cab_files, cab_i>>
fs == <<disk, partial, transfers>>
host == <<list_before, WinUserLanguageList, WinUILanguageOverride,
          WinSystemLocale, WelcomeLanguage, rebooted>>
term == <<fail_msg, acknowledged, exit_code>>

vars == <<pc, DRY_RUN, config, selection, plan, fs, invocations, host, term,
          done_plans>>

NoMsg == "none"
NoText == << >>

\* The state of a run at its start.
StartOfRun ==
    /\ pc = "check_internet"
    /\ lines = << >>
    /\ arch_path = NoText
    /\ arch_token = NoText
    /\ langs = {}
    /\ lang = NoText
    /\ preserve = TRUE
    /\ extend = TRUE
    /\ found = << >>
    /\ next_url = 1
    /\ appx_files = << >>
    /\ cab_files = << >>
    /\ cab_i = 1
    /\ transfers = << >>
    /\ invocations = << >>
    /\ fail_msg = NoMsg
    /\ acknowledged = FALSE
    /\ exit_code = 0
    /\ list_before = << >>
    /\ WinUserLanguageList = << >>
    /\ WinUILanguageOverride = NoText
    /\ WinSystemLocale = NoText
    /\ WelcomeLanguage = NoText
    /\ rebooted = FALSE

InitFrom(contents, machines, modes) ==
    /\ StartOfRun
    /\ DRY_RUN \in modes
    /\ files \in contents
    /\ machine \in machines
    /\ disk = {}
    /\ partial = {}
    /\ done_plans = {}

\* The installation runs: input files without a repeated line.
Init ==
    InitFrom(DistinctSeqUpTo(RunPool, MaxLines), {M_AMD64, M_ia64}, BOOLEAN)

\* The runs that stop after matching: input files with repeated lines too.
InitMatch ==
    InitFrom(SeqUpTo(MatchPool, MaxLines), Machines, {FALSE})

\* The first runs on a host: nothing has been downloaded yet.
InitNames ==
    InitFrom(DistinctSeqUpTo(NamesPool, MaxLines), {M_AMD64, M_ia64}, BOOLEAN)

(***************************************************************************)
(* Exit handling                                                           *)
(***************************************************************************)

\* pause_exit(code) up to its input(): the run waits for the operator.
pause_exit(code) ==
    /\ pc' = "pause"
    /\ exit_code' = code

\* fatal(msg)
fatal(msg) ==
    /\ fail_msg' = msg
    /\ pause_exit(1)
    /\ UNCHANGED acknowledged

\* An exception no handler catches: the interpreter prints the traceback and
\* the process ends with status 1.
Uncaught ==
    /\ pc' = "exited"
    /\ exit_code' = 1
    /\ UNCHANGED <<fail_msg, acknowledged>>

\* input() returns and sys.exit(code) ends the process.
Acknowledge ==
    /\ pc = "pause"
    /\ pc' = "exited"
    /\ acknowledged' = TRUE
    /\ UNCHANGED <<DRY_RUN, config, selection, plan, fs, invocations, host,
                   fail_msg, exit_code, done_plans>>

ExitCodes == {0, 1}

\* run(cmd) without the test of the exit code.
run_unchecked(cmd, ret, then) ==
    /\ invocations' = Append(invocations,
                              [tool |-> cmd.tool, args |-> cmd.args,
                               ret |-> ret])
    /\ pc' = then
    /\ UNCHANGED term

\* run(cmd): the command is started, and a non-zero exit is fatal.
run(cmd, ret, then) ==
    /\ invocations' = Append(invocations,
                              [tool |-> cmd.tool, args |-> cmd.args,
                               ret |-> ret])
    /\ IF ret # 0
       THEN fatal("Command failed")
       ELSE /\ pc' = then
            /\ UNCHANGED term

(***************************************************************************)
(* Steps of main                                                           *)
(***************************************************************************)

CheckInternet ==
    /\ pc = "check_internet"
    /\ \/ /\ pc' = "load"
          /\ UNCHANGED term
       \/ fatal("No internet connection detected")
    /\ UNCHANGED <<DRY_RUN, config, selection, plan, fs, invocations, host,
                   done_plans>>

LoadAllLines ==
    /\ pc = "load"
    /\ \/ /\ lines' = load_all_lines(files)
          /\ pc' = "detect_arch"
          /\ UNCHANGED term
       \/ /\ fatal("Missing file")
          /\ UNCHANGED lines
    /\ UNCHANGED <<DRY_RUN, config, arch_path, arch_token, langs, lang,
                   preserve, extend, plan, fs, invocations, host, done_plans>>

DetectArch ==
    /\ pc = "detect_arch"
    /\ LET a == detect_arch(machine)
       IN  IF a = Unsupported
           THEN /\ fatal("Unsupported architecture")
                /\ UNCHANGED <<arch_path, arch_token>>
           ELSE /\ arch_path' = a[1]
                /\ arch_token' = a[2]
                /\ pc' = "extract_languages"
                /\ UNCHANGED term
    /\ UNCHANGED <<DRY_RUN, config, lines, langs, lang, preserve, extend,
                   plan, fs, invocations, host, done_plans>>

ExtractLanguages ==
    /\ pc = "extract_languages"
    /\ langs' = extract_languages(lines)
    /\ IF langs' = {}
       THEN fatal("No languages found")
       ELSE /\ pc' = "select_language"
            /\ UNCHANGED term
    /\ UNCHANGED <<DRY_RUN, config, lines, arch_path, arch_token, lang,
                   preserve, extend, plan, fs, invocations, host, done_plans>>

SelectLanguage ==
    /\ pc = "select_language"
    /\ \/ /\ \E choice \in langs : lang' = choice
          /\ pc' = "prompts"
          /\ UNCHANGED term
       \/ /\ fatal("Cancelled by user")
          /\ UNCHANGED lang
    /\ UNCHANGED <<DRY_RUN, config, lines, arch_path, arch_token, langs,
                   preserve, extend, plan, fs, invocations, host, done_plans>>

Prompts ==
    /\ pc = "prompts"
    /\ \/ /\ preserve' \in BOOLEAN
          /\ extend' \in BOOLEAN
          /\ pc' = "resolve"
          /\ UNCHANGED term
       \/ /\ fatal("Invalid input")
          /\ UNCHANGED <<preserve, extend>>
    /\ UNCHANGED <<DRY_RUN, config, lines, arch_path, arch_token, langs, lang,
                   plan, fs, invocations, host, done_plans>>

\* The matching loop without the test of an empty result.
Resolve_NoCheck ==
    /\ pc = "resolve"
    /\ found' = Match(lines, lang, arch_path, arch_token)
    /\ pc' = "transfer"
    /\ UNCHANGED term
    /\ UNCHANGED <<DRY_RUN, config, selection, next_url, appx_files,
                   cab_files, cab_i, fs, invocations, host, done_plans>>

Resolve ==
    /\ pc = "resolve"
    /\ found' = Match(lines, lang, arch_path, arch_token)
    /\ IF found' = << >>
       THEN fatal("No matching files found")
       ELSE /\ pc' = "transfer"
            /\ UNCHANGED term
    /\ UNCHANGED <<DRY_RUN, config, selection, next_url, appx_files,
                   cab_files, cab_i, fs, invocations, host, done_plans>>

\* appx_files.append(dest) or cab_files.append(dest)
Filed(dest) ==
    IF dest[1] = APPX_DIR
    THEN /\ appx_files' = Append(appx_files, dest)
         /\ UNCHANGED cab_files
    ELSE /\ cab_files' = Append(cab_files, dest)
         /\ UNCHANGED appx_files

\* The transfer loop with a download_file that does not test dest.exists().
Download_NoExistsCheck ==
    /\ pc = "transfer"
    /\ next_url <= Len(found)
    /\ LET url == found[next_url]
           dest == Dest[url]
       IN  /\ transfers' = Append(transfers, url)
           /\ \/ /\ disk' = disk \cup {dest}
                 /\ Filed(dest)
                 /\ next_url' = next_url + 1
                 /\ UNCHANGED <<pc, partial, term>>
              \/ /\ Uncaught
                 /\ \/ UNCHANGED <<disk, partial>>
                    \/ /\ disk' = disk \cup {dest}
                       /\ partial' = partial \cup {dest}
                 /\ UNCHANGED <<next_url, appx_files, cab_files>>
    /\ UNCHANGED <<DRY_RUN, config, selection, found, cab_i, invocations,
                   host, done_plans>>

\* The transfer loop with a download_file that downloads again a file an
\* earlier failed transfer left behind.
Download_AgainIfPartial ==
    /\ pc = "transfer"
    /\ next_url <= Len(found)
    /\ LET url == found[next_url]
           dest == Dest[url]
       IN  IF dest \in disk \ partial
           THEN /\ Filed(dest)
                /\ next_url' = next_url + 1
                /\ UNCHANGED <<pc, fs, term>>
           ELSE /\ transfers' = Append(transfers, url)
                /\ \/ /\ disk' = disk \cup {dest}
                      /\ Filed(dest)
                      /\ next_url' = next_url + 1
                      /\ UNCHANGED <<pc, partial, term>>
                   \/ /\ Uncaught
                      /\ \/ UNCHANGED <<disk, partial>>
                         \/ /\ disk' = disk \cup {dest}
                            /\ partial' = partial \cup {dest}
                      /\ UNCHANGED <<next_url, appx_files, cab_files>>
    /\ UNCHANGED <<DRY_RUN, config, selection, found, cab_i, invocations,
                   host, done_plans>>

\* One iteration of the transfer loop: download_file(url, dest) and the append.
Download ==
    /\ pc = "transfer"
    /\ next_url <= Len(found)
    /\ LET url == found[next_url]
           dest == Dest[url]
       IN  IF dest \in disk
           THEN /\ Filed(dest)
                /\ next_url' = next_url + 1
                /\ UNCHANGED <<pc, fs, term>>
           ELSE /\ transfers' = Append(transfers, url)
                /\ \/ /\ disk' = disk \cup {dest}
                      /\ Filed(dest)
                      /\ next_url' = next_url + 1
                      /\ UNCHANGED <<pc, partial, term>>
                   \/ /\ Uncaught
                      /\ \/ UNCHANGED <<disk, partial>>
                         \/ /\ disk' = disk \cup {dest}
                            /\ partial' = partial \cup {dest}
                      /\ UNCHANGED <<next_url, appx_files, cab_files>>
    /\ UNCHANGED <<DRY_RUN, config, selection, found, cab_i, invocations,
                   host, done_plans>>

\* The end of the transfer loop without the test of DRY_RUN.
DryRunCheck_Ignored ==
    /\ pc = "transfer"
    /\ next_url > Len(found)
    /\ pc' = "install_cabs"
    /\ UNCHANGED term
    /\ UNCHANGED <<DRY_RUN, config, selection, plan, fs, invocations, host,
                   done_plans>>

\* The transfer loop left one iteration early.
DryRunCheck_Early ==
    /\ pc = "transfer"
    /\ next_url >= Len(found)
    /\ IF DRY_RUN
       THEN /\ pause_exit(0)
            /\ UNCHANGED <<fail_msg, acknowledged>>
       ELSE /\ pc' = "install_cabs"
            /\ UNCHANGED term
    /\ UNCHANGED <<DRY_RUN, config, selection, plan, fs, invocations, host,
                   done_plans>>

DryRunCheck ==
    /\ pc = "transfer"
    /\ next_url > Len(found)
    /\ IF DRY_RUN
       THEN /\ pause_exit(0)
            /\ UNCHANGED <<fail_msg, acknowledged>>
       ELSE /\ pc' = "install_cabs"
            /\ UNCHANGED term
    /\ UNCHANGED <<DRY_RUN, config, selection, plan, fs, invocations, host,
                   done_plans>>

InstallCab ==
    /\ pc = "install_cabs"
    /\ cab_i <= Len(cab_files)
    /\ \E ret \in ExitCodes :
          /\ run([tool |-> "dism", args |-> <<cab_files[cab_i]>>], ret,
                 "install_cabs")
          /\ cab_i' = IF ret = 0 THEN cab_i + 1 ELSE cab_i
    /\ UNCHANGED <<DRY_RUN, config, selection, found, next_url, appx_files,
                   cab_files, fs, host, done_plans>>

\* next((x for x in appx_files if test(x.name.lower())), None), as a sequence
\* of at most one element.
FirstOf(fs_, test(_)) ==
    LET hits == SelectSeq(fs_, LAMBDA d : test(lower(d[2])))
    IN  IF hits = << >> THEN << >> ELSE <<hits[1]>>

InstallExperiencePackage ==
    /\ pc = "install_cabs"
    /\ cab_i > Len(cab_files)
    /\ LET lep == FirstOf(appx_files, LAMBDA n : In(S_languageexperiencepack, n))
           lic == FirstOf(appx_files, LAMBDA n : n = S_license_xml)
       IN  IF lep # << >>
           THEN \E ret \in ExitCodes :
                    run([tool |-> "provision",
                         args |-> IF lic # << >>
                                  THEN <<lep[1], "-LicensePath", lic[1]>>
                                  ELSE <<lep[1], "-SkipLicense">>],
                        ret, "user_locale")
           ELSE /\ pc' = "user_locale"
                /\ UNCHANGED <<invocations, term>>
    /\ UNCHANGED <<DRY_RUN, config, selection, plan, fs, host, done_plans>>

ApplyUserLocale ==
    /\ pc = "user_locale"
    /\ \E prev \in HostLists, ret \in ExitCodes :
          LET stmts == ps_cmd(extend, preserve, lang)
              k == IF ret = 0 THEN Len(stmts) ELSE Len(stmts) - 1
          IN     LET env == PsRun(stmts, k,
                                  [list |-> << >>, new |-> << >>,
                                   host_list |-> prev,
                                   ui |-> WinUILanguageOverride,
                                   locale |-> WinSystemLocale], lang)
                 IN  /\ list_before' = prev
                     /\ WinUserLanguageList' = env.host_list
                     /\ WinUILanguageOverride' = env.ui
                     /\ WinSystemLocale' = env.locale
                     /\ run([tool |-> "user_locale", args |-> stmts], ret,
                            "system_locale")
    /\ UNCHANGED <<DRY_RUN, config, selection, plan, fs, WelcomeLanguage,
                   rebooted, done_plans>>

ApplySystemLocale ==
    /\ pc = "system_locale"
    /\ \E ret \in ExitCodes :
          /\ run([tool |-> "system_locale", args |-> <<lang>>], ret,
                 "prompt_reboot")
          /\ WelcomeLanguage' = IF ret = 0 THEN lang ELSE WelcomeLanguage
    /\ UNCHANGED <<DRY_RUN, config, selection, plan, fs, list_before,
                   WinUserLanguageList, WinUILanguageOverride,
                   WinSystemLocale, rebooted, done_plans>>

PromptReboot ==
    /\ pc = "prompt_reboot"
    /\ \/ /\ rebooted' = TRUE
          /\ pc' = "exited"
          /\ UNCHANGED term
       \/ /\ pause_exit(0)
          /\ UNCHANGED <<rebooted, fail_msg, acknowledged>>
    /\ UNCHANGED <<DRY_RUN, config, selection, plan, fs, invocations,
                   list_before, WinUserLanguageList, WinUILanguageOverride,
                   WinSystemLocale, WelcomeLanguage, done_plans>>

\* The transfer loop of this run has gone through the whole plan.
TransferComplete ==
    found # << >> /\ next_url > Len(found)

\* The program is started again on the same host: the input files and the
\* download directory are as the previous run left them.
Rerun ==
    /\ pc = "exited"
    /\ done_plans' = IF TransferComplete THEN done_plans \cup {found}
                     ELSE done_plans
    /\ DRY_RUN' \in BOOLEAN
    /\ pc' = "check_internet"
    /\ lines' = << >>
    /\ arch_path' = NoText
    /\ arch_token' = NoText
    /\ langs' = {}
    /\ lang' = NoText
    /\ preserve' = TRUE
    /\ extend' = TRUE
    /\ found' = << >>
    /\ next_url' = 1
    /\ appx_files' = << >>
    /\ cab_files' = << >>
    /\ cab_i' = 1
    /\ transfers' = << >>
    /\ invocations' = << >>
    /\ fail_msg' = NoMsg
    /\ acknowledged' = FALSE
    /\ exit_code' = 0
    /\ list_before' = << >>
    /\ WinUserLanguageList' = << >>
    /\ WinUILanguageOverride' = NoText
    /\ WinSystemLocale' = NoText
    /\ WelcomeLanguage' = NoText
    /\ rebooted' = FALSE
    /\ UNCHANGED <<config, disk, partial>>

Next ==
    \/ CheckInternet
    \/ LoadAllLines
    \/ DetectArch
    \/ ExtractLanguages
    \/ SelectLanguage
    \/ Prompts
    \/ Resolve
    \/ Download
    \/ DryRunCheck
    \/ InstallCab
    \/ InstallExperiencePackage
    \/ ApplyUserLocale
    \/ ApplySystemLocale
    \/ PromptReboot
    \/ Acknowledge
    \/ Rerun

Spec == Init /\ [][Next]_vars

\* The run up to the end of the matching loop, over the larger set of lines.
NextMatch ==
    \/ CheckInternet
    \/ LoadAllLines
    \/ DetectArch
    \/ ExtractLanguages
    \/ SelectLanguage
    \/ Prompts
    \/ Resolve
    \/ Acknowledge

SpecMatch == InitMatch /\ [][NextMatch]_vars

\* One run from an empty download directory: the program is not started again.
NextFirstRun ==
    \/ CheckInternet
    \/ LoadAllLines
    \/ DetectArch
    \/ ExtractLanguages
    \/ SelectLanguage
    \/ Prompts
    \/ Resolve
    \/ Download
    \/ DryRunCheck
    \/ InstallCab
    \/ InstallExperiencePackage
    \/ ApplyUserLocale
    \/ ApplySystemLocale
    \/ PromptReboot
    \/ Acknowledge

SpecNames == InitNames /\ [][NextFirstRun]_vars

(***************************************************************************)
(* Properties                                                              *)
(***************************************************************************)

\* The positions of main before the matching loop has run.
BeforeResolve ==
    {"check_internet", "load", "detect_arch", "extract_languages",
     "select_language", "prompts", "resolve"}

\* The matching loop of this run has run.
Resolved ==
    found # << >> \/ fail_msg = "No matching files found"

InFound(line) ==
    \E i \in 1..Len(found) : found[i] = line

\* The three rules of the matcher, on the decoded lower-case text of a line.
Rule1(line) ==
    InExperienceDir(Lowered[line], lang) /\ HasPackageSuffix(Lowered[line])

Rule2(line) ==
    IsClientCab(Lowered[line], arch_path, lang)

Rule3(line) ==
    /\ IsFeatureCab(Lowered[line], lang, arch_token)
    /\ \E k \in 1..Len(FOD_FEATURE_KEYWORDS) :
          In(FOD_FEATURE_KEYWORDS[k], Lowered[line])

\* C1: no line whose decoded lower-case text contains a WinPE marker is in
\* the plan, whatever rule it satisfies.
C1_NoWinPEInPlan ==
    \A i \in 1..Len(found) :
        /\ ~In(S_winpe, Lowered[found[i]])
        /\ ~In(S_windows_preinstallation_environment, Lowered[found[i]])

\* C1 witness: the matching loop has run over a manifest holding a WinPE line
\* that satisfies rule 1 or rule 2, and another line made the plan.
C1_Witness ==
    /\ pc = "transfer"
    /\ \E i \in 1..Len(lines) :
          /\ In(S_windows_preinstallation_environment, Lowered[lines[i]])
          /\ Rule1(lines[i])
    /\ \E i \in 1..Len(lines) :
          /\ In(S_winpe, Lowered[lines[i]])
          /\ Rule2(lines[i])

\* C6 as stated: a line is in the plan exactly when it is not WinPE and
\* satisfies rule 1, rule 2 or rule 3.
C6_Original ==
    Resolved =>
        \A i \in 1..Len(lines) :
            InFound(lines[i]) <=>
                /\ ~is_winpe(Lowered[lines[i]])
                /\ Rule1(lines[i]) \/ Rule2(lines[i]) \/ Rule3(lines[i])

\* C6 amended: a line is in the plan exactly when it is not WinPE and either
\* satisfies rule 1, or does not contain "/localexperiencepack/{lang}/" and
\* satisfies rule 2 or rule 3.
C6_Membership ==
    Resolved =>
        \A i \in 1..Len(lines) :
            InFound(lines[i]) <=>
                /\ ~is_winpe(Lowered[lines[i]])
                /\ \/ Rule1(lines[i])
                   \/ /\ ~InExperienceDir(Lowered[lines[i]], lang)
                      /\ Rule2(lines[i]) \/ Rule3(lines[i])

\* C6 witness: the plan holds a line of each rule, and a line of the
\* experience-pack directory that satisfies rule 2 was dropped.
C6_Witness ==
    /\ pc = "transfer"
    /\ \E i \in 1..Len(found) : Rule1(found[i])
    /\ \E i \in 1..Len(found) : Rule2(found[i]) \/ Rule3(found[i])
    /\ \E i \in 1..Len(lines) :
          /\ InExperienceDir(Lowered[lines[i]], lang)
          /\ Rule2(lines[i])
          /\ ~InFound(lines[i])

\* The tools of the commands started so far, in order.
Tools ==
    [i \in 1..Len(invocations) |-> invocations[i].tool]

\* The install stages have all gone through without a failure.
Completed ==
    \/ pc = "prompt_reboot"
    \/ pc \in {"pause", "exited"} /\ ~DRY_RUN /\ exit_code = 0

\* The run has ended through an exception that nothing caught.
Crashed ==
    pc = "exited" /\ exit_code # 0 /\ ~acknowledged

\* C2: a command that exits non-zero is the last command the run starts,
\* and the run then waits for the operator or has ended, with a non-zero
\* exit code; so the cabinets after a failed one are never installed.
C2_HaltOnFirstFailure ==
    \A i \in 1..Len(invocations) :
        invocations[i].ret # 0 =>
            /\ i = Len(invocations)
            /\ pc \in {"pause", "exited"}
            /\ exit_code # 0
            /\ invocations[i].tool = "dism" => cab_i = i

\* C2 witness: the first of two planned cabinet installs failed, the second
\* was never started and the run has ended.
C2_Witness ==
    /\ pc = "exited"
    /\ Len(cab_files) = 2
    /\ Tools = <<"dism">>
    /\ invocations[1].ret # 0

\* C3: a dry run starts no command and changes no host setting, and once its
\* transfer loop is through it only waits for the operator and ends with
\* exit code 0.
C3_DryRunNoInstall ==
    DRY_RUN =>
        /\ invocations = << >>
        /\ ~rebooted
        /\ WinUserLanguageList = << >>
        /\ WinUILanguageOverride = NoText
        /\ WinSystemLocale = NoText
        /\ WelcomeLanguage = NoText
        /\ TransferComplete =>
               /\ pc \in {"transfer", "pause", "exited"}
               /\ exit_code = 0
               /\ fail_msg = NoMsg

\* C3 witness: a dry run has transferred a plan of two artifacts and ended.
C3_Witness ==
    /\ DRY_RUN
    /\ pc = "exited"
    /\ acknowledged
    /\ Len(found) >= 2
    /\ Len(transfers) = Len(found)

\* C4: when an earlier run has taken the transfer loop through this plan,
\* the run opens no url, no transfer fails, and every artifact the loop has
\* passed is filed as downloaded.
C4_TransferIdempotent ==
    found \in done_plans =>
        /\ transfers = << >>
        /\ ~Crashed
        /\ Len(appx_files) + Len(cab_files) = next_url - 1
        /\ \A i \in 1..(next_url - 1) :
              \/ \E j \in 1..Len(appx_files) : appx_files[j] = Dest[found[i]]
              \/ \E j \in 1..Len(cab_files) : cab_files[j] = Dest[found[i]]

\* C4 witness: a later run has gone through the transfer loop of a plan of
\* three artifacts that an earlier run had transferred.
C4_Witness ==
    /\ found \in done_plans
    /\ Len(found) = 3
    /\ TransferComplete

\* C5 as stated: a run that ends with a non-zero exit code has logged a
\* failure message and has waited for the operator.
C5_FatalAcknowledged ==
    (pc = "exited" /\ exit_code # 0) =>
        /\ fail_msg # NoMsg
        /\ acknowledged

Rank(tool) ==
    CASE tool = "dism" -> 1
      [] tool = "provision" -> 2
      [] tool = "user_locale" -> 3
      [] tool = "system_locale" -> 4

\* C7: no command starts before every planned artifact is on disk; the
\* commands run in stage order, only the cabinet install more than once; a
\* run without failure ends with one user-locale command followed by one
\* system-locale command.
C7_StageOrder ==
    /\ invocations # << >> =>
          /\ TransferComplete
          /\ \A i \in 1..Len(found) : Dest[found[i]] \in disk
    /\ \A i, j \in 1..Len(invocations) :
          i < j =>
              /\ Rank(Tools[i]) <= Rank(Tools[j])
              /\ Tools[i] = Tools[j] => Tools[i] = "dism"
    /\ Completed =>
          /\ Len(invocations) >= 2
          /\ Tools[Len(invocations) - 1] = "user_locale"
          /\ Tools[Len(invocations)] = "system_locale"

\* C7 witness: a run has installed two cabinets and the experience package,
\* applied both locales and ended.
C7_Witness ==
    /\ pc = "exited"
    /\ Completed
    /\ Tools = <<"dism", "dism", "provision", "user_locale", "system_locale">>

\* C8: the run never reaches the transfer loop with an empty plan; with an
\* empty plan it opens no url and starts no command, and the failure of the
\* matching loop ends it with a non-zero exit code.
C8_EmptyPlanFails ==
    /\ (pc \notin BeforeResolve /\ pc \notin {"pause", "exited"}) =>
          found # << >>
    /\ found = << >> =>
          /\ transfers = << >>
          /\ invocations = << >>
          /\ pc = "exited" => exit_code # 0
    /\ fail_msg = "No matching files found" =>
          /\ found = << >>
          /\ pc \in {"pause", "exited"}
          /\ exit_code # 0

\* C8 witness: a dry run over a manifest that offers a language has found
\* no artifact for it and ended.
C8_Witness ==
    /\ DRY_RUN
    /\ pc = "exited"
    /\ fail_msg = "No matching files found"
    /\ lang \in langs
    /\ disk = {}

UserLocaleInvoked ==
    \E i \in 1..Len(invocations) : Tools[i] = "user_locale"

UserLocaleSucceeded ==
    \E i \in 1..Len(invocations) :
        Tools[i] = "user_locale" /\ invocations[i].ret = 0

\* C9: in replace mode the user-locale command leaves the one-entry list of
\* the chosen language, whatever the list was before and whatever the
\* keyboard answer, and a successful command sets the language as UI
\* override and as system locale.
C9_ReplaceRow ==
    (~extend /\ UserLocaleInvoked) =>
        /\ WinUserLanguageList = <<lang>>
        /\ UserLocaleSucceeded =>
              /\ WinUILanguageOverride = lang
              /\ WinSystemLocale = lang

\* C9 witness: replace mode with keyboards preserved, on a host whose list
\* held three languages.
C9_Witness ==
    /\ ~extend
    /\ preserve
    /\ UserLocaleSucceeded
    /\ Len(list_before) = 3

\* The dism commands' package paths, in order.
DismPaths ==
    LET ds == SelectSeq(invocations, LAMBDA c : c.tool = "dism")
    IN  [i \in 1..Len(ds) |-> ds[i].args[1]]

\* The destinations of the planned artifacts that matched as cabinets
\* (rule 2 or rule 3), in plan order.
PlannedCabs ==
    LET cs == SelectSeq(found, LAMBDA line : ~Rule1(line))
    IN  [i \in 1..Len(cs) |-> Dest[cs[i]]]

\* C10 as stated: in a run without failure the cabinet installs are the
\* planned cabinet artifacts, one command each, in plan order.
C10_CabsFollowPlan ==
    Completed => DismPaths = PlannedCabs

\* C10 holds of the plans without a line that matched rule 1 by its
\* "license.xml" suffix under another file name.
C10_ExceptOtherLicenseNames ==
    (Completed /\ \A i \in 1..Len(found) :
                     Rule1(found[i]) => Dest[found[i]][1] = APPX_DIR)
        => DismPaths = PlannedCabs

\* The planned lines that matched rule 1 with the ".appx" suffix (the
\* experience packages of the plan), in plan order.
PlannedPackages ==
    SelectSeq(found, LAMBDA line :
                         Rule1(line) /\ endswith(Lowered[line], S_appx))

\* The provisioning commands started so far.
ProvisionCalls ==
    SelectSeq(invocations, LAMBDA c : c.tool = "provision")

\* C11: provisioning is started at most once, for the first experience
\* package of the plan; a run that has come to the user-locale step has
\* started it exactly when the plan holds an experience package, and has not
\* failed when it skipped it.
C11_ProvisionFirstPackage ==
    /\ Len(ProvisionCalls) <= 1
    /\ ProvisionCalls # << >> =>
           /\ PlannedPackages # << >>
           /\ ProvisionCalls[1].args[1] = Dest[PlannedPackages[1]]
    /\ pc = "user_locale" =>
           /\ Len(ProvisionCalls) = 1 <=> PlannedPackages # << >>
           /\ fail_msg = NoMsg

\* The architecture paths detect_arch can give.
ArchPaths ==
    {S_x64, S_x86, S_arm64}

\* The client language pack file name of an architecture path and a language.
ClientCabName(a, lang_) ==
    S_client_language_pack \o a \o S_underscore \o lang_ \o S_cab

\* The languages the lines of the input files offer.
PoolLangs ==
    UNION {LangsOfLine(line) : line \in Pool}

\* The architecture paths whose client language pack name, for a language,
\* is in the decoded lower-case text of a line; computed once.
ClientCabArchs ==
    [line \in Pool |->
        [lg \in PoolLangs |->
            {a \in ArchPaths : In(ClientCabName(a, lg), Lowered[line])}]]

\* How many times a line is in the plan.
Occurrences(line) ==
    Cardinality({i \in 1..Len(found) : found[i] = line})

\* C12 as stated: a line containing the client language pack name of
\* architecture path A and the chosen language is in the plan exactly once
\* when the machine's architecture path is A, and does not satisfy rule 2
\* when it is another.
C12_Original ==
    Resolved =>
        \A i \in 1..Len(lines) :
            \A a \in ClientCabArchs[lines[i]][lang] :
                IF a = arch_path THEN Occurrences(lines[i]) = 1
                ELSE ~Rule2(lines[i])

\* C12 amended: a line containing the client language pack name of
\* architecture path A and the chosen language, that is not WinPE and does
\* not contain "/localexperiencepack/{lang}/", is in the plan exactly once
\* when the machine's architecture path is A; when it is another and the line
\* does not contain that one's name too, the line is in the plan only through
\* rule 3.  A WinPE line with such a name is not in the plan, and a line of
\* the experience-pack directory is in it only through rule 1.
C12_ArchSelective ==
    Resolved =>
        \A i \in 1..Len(lines) :
            \A a \in ClientCabArchs[lines[i]][lang] :
                LET l == Lowered[lines[i]]
                IN  IF is_winpe(l) THEN ~InFound(lines[i])
                    ELSE IF InExperienceDir(l, lang)
                         THEN InFound(lines[i]) => Rule1(lines[i])
                    ELSE IF a = arch_path THEN Occurrences(lines[i]) = 1
                    ELSE \/ arch_path \in ClientCabArchs[lines[i]][lang]
                         \/ InFound(lines[i]) => Rule3(lines[i])

\* C12 witness: on an arm64 machine the manifest holds the x64 and the arm64
\* client language pack, and the plan holds the arm64 one only.
C12_Witness ==
    /\ pc = "transfer"
    /\ arch_path = S_arm64
    /\ \E i, j \in 1..Len(lines) : lines[i] = "Cab" /\ lines[j] = "CabArm"
    /\ InFound("CabArm")
    /\ ~InFound("Cab")

\* The plan entries the transfer loop of this run has gone through.
Transferred ==
    1..(next_url - 1)

\* C13: a planned line that matched rule 1 is stored in the package directory
\* and is never passed to dism; a planned line that matched rule 2 or rule 3
\* is stored in the cabinet directory, and is passed to dism in a run whose
\* install stages all went through.
C13_RoutingAgreesWithMatching ==
    \A i \in Transferred :
        IF Rule1(found[i])
        THEN /\ Dest[found[i]][1] = APPX_DIR
             /\ \A k \in 1..Len(DismPaths) : DismPaths[k] # Dest[found[i]]
        ELSE /\ Dest[found[i]][1] = CAB_DIR
             /\ Completed =>
                    \E k \in 1..Len(DismPaths) : DismPaths[k] = Dest[found[i]]

\* The transfer of the plan entry the loop is at was started and did not
\* come back: download_file raised.
FailedTransfer ==
    /\ next_url <= Len(found)
    /\ transfers # << >>
    /\ transfers[Len(transfers)] = found[next_url]

\* The files the transfer loop of this run has filed for the install steps.
FiledFiles ==
    {appx_files[j] : j \in 1..Len(appx_files)}
        \cup {cab_files[j] : j \in 1..Len(cab_files)}

\* After a failed transfer the run has ended with status 1, has started no
\* command, and has asked for the failed reference once.
HaltsOnFailedTransfer ==
    FailedTransfer =>
        /\ pc = "exited"
        /\ exit_code = 1
        /\ invocations = << >>
        /\ Cardinality({k \in 1..Len(transfers) :
                            transfers[k] = found[next_url]}) = 1

\* A file a failed transfer left behind is taken for a complete one: a later
\* pass of the transfer loop files it without a network transfer, and a run
\* whose install stages all went through has passed it to dism when it was
\* filed as a cabinet.
PartialTakenForComplete ==
    /\ partial \subseteq disk
    /\ \A i \in Transferred :
          Dest[found[i]] \in partial =>
              /\ \A k \in 1..Len(transfers) : transfers[k] # found[i]
              /\ Dest[found[i]] \in FiledFiles
              /\ (Completed /\ Dest[found[i]][1] = CAB_DIR) =>
                     \E k \in 1..Len(DismPaths) : DismPaths[k] = Dest[found[i]]

\* C14 as stated: a failed transfer ends the run without a retry and without
\* a command, leaves its destination file on disk, and the file is taken for
\* complete by a later run.
C14_Original ==
    /\ HaltsOnFailedTransfer
    /\ FailedTransfer => Dest[found[next_url]] \in disk
    /\ PartialTakenForComplete

\* C14 amended: a failed transfer ends the run without a retry and without a
\* command; the destination file is on disk only when the transfer failed
\* after the file was opened, and such a file stays and is taken for complete
\* by a later run.
C14_FailedTransfer ==
    /\ HaltsOnFailedTransfer
    /\ (FailedTransfer /\ Dest[found[next_url]] \in disk) =>
           Dest[found[next_url]] \in partial
    /\ PartialTakenForComplete

\* C14 witness: an install run went through all its stages with a cabinet an
\* earlier failed transfer had left behind: no transfer of it in this run,
\* and dism was started on it.
C14_Witness ==
    /\ Completed
    /\ \E i \in 1..Len(found) :
          /\ Dest[found[i]] \in partial
          /\ Dest[found[i]][1] = CAB_DIR
          /\ \A k \in 1..Len(transfers) : transfers[k] # found[i]
          /\ \E k \in 1..Len(DismPaths) : DismPaths[k] = Dest[found[i]]

\* C15: in the extend modes the user-locale command leaves, with keyboards
\* preserved, the previous list as it was when it held the chosen language
\* and with the language appended otherwise; without, the chosen language
\* followed by the previous list without it, in its order.  Either way every
\* language of the previous list is in the new one and the chosen language is
\* in it once.
C15_ExtendRows ==
    (extend /\ UserLocaleInvoked) =>
        /\ IF preserve
           THEN WinUserLanguageList =
                    IF \E i \in 1..Len(list_before) : list_before[i] = lang
                    THEN list_before
                    ELSE Append(list_before, lang)
           ELSE WinUserLanguageList =
                    <<lang>> \o SelectSeq(list_before, LAMBDA t : t # lang)
        /\ \A i \in 1..Len(list_before) :
              \E k \in 1..Len(WinUserLanguageList) :
                  WinUserLanguageList[k] = list_before[i]
        /\ Cardinality({k \in 1..Len(WinUserLanguageList) :
                            WinUserLanguageList[k] = lang}) = 1

\* C15 witness: the rebuild mode on a host whose list held the chosen
\* language in second place: it is now first, the others follow in order.
C15_Witness ==
    /\ extend
    /\ ~preserve
    /\ UserLocaleSucceeded
    /\ list_before = <<L_de_de, L_fr_fr, L_en_us>>
    /\ WinUserLanguageList = <<L_fr_fr, L_de_de, L_en_us>>

\* The planned lines that matched rule 1 with the "license.xml" suffix (the
\* license files of the plan), in plan order.
PlannedLicenses ==
    SelectSeq(found, LAMBDA line :
                         Rule1(line) /\ endswith(Lowered[line], S_license_xml))

\* C16: a provisioning command carries "-LicensePath" exactly when the plan
\* holds a license file and "-SkipLicense" exactly when it holds none, never
\* both; the path it carries is a license file of the plan, next to a
\* package.
C16_LicenseMode ==
    \A k \in 1..Len(ProvisionCalls) :
        LET args == ProvisionCalls[k].args
            WithLicense == \E j \in 1..Len(args) : args[j] = "-LicensePath"
            SkipLicense == \E j \in 1..Len(args) : args[j] = "-SkipLicense"
        IN  /\ WithLicense <=> PlannedLicenses # << >>
            /\ SkipLicense <=> PlannedLicenses = << >>
            /\ ~(WithLicense /\ SkipLicense)
            /\ WithLicense =>
                   /\ \E i \in 1..Len(PlannedLicenses) :
                          args[3] = Dest[PlannedLicenses[i]]
                   /\ args[1] \in FiledFiles

\* The position of a line in the manifest.
Pos(line) ==
    CHOOSE i \in 1..Len(lines) : lines[i] = line

\* C17: the manifest holds no line twice, and the plan is a subsequence of
\* it: every plan entry is a manifest line, no line is in the plan twice (a
\* line with several feature keywords neither), and plan entries follow one
\* another as in the manifest.
C17_PlanIsSubsequence ==
    /\ \A i, j \in 1..Len(lines) : lines[i] = lines[j] => i = j
    /\ \A k \in 1..Len(found) :
          /\ \E i \in 1..Len(lines) : lines[i] = found[k]
          /\ \A m \in (k + 1)..Len(found) :
                /\ found[m] # found[k]
                /\ Pos(found[k]) < Pos(found[m])

\* C17 witness: the input files held a line twice, the manifest holds two
\* lines, and both are in the plan, one of them a feature cabinet with two
\* feature keywords.
C17_Witness ==
    /\ pc = "transfer"
    /\ Len(files) = 3
    /\ Len(lines) = 2
    /\ Len(found) = 2
    /\ found[1] = "FodTwo"
    /\ In(S_kw_basic, Lowered["FodTwo"])
    /\ In(S_kw_fonts, Lowered["FodTwo"])

\* The destinations of the plan entries the transfer loop has gone through.
DestsTransferred ==
    {Dest[found[i]] : i \in Transferred}

\* C18 as stated: in a first run whose transfers all succeed, every plan
\* entry the loop has gone through was transferred once, the transfers are
\* as many as these entries, and two of them have different destinations.
C18_Original ==
    ~Crashed =>
        /\ Len(transfers) = next_url - 1
        /\ \A i \in Transferred :
              Cardinality({k \in 1..Len(transfers) :
                               transfers[k] = found[i]}) = 1
        /\ \A i, j \in Transferred :
              Dest[found[i]] = Dest[found[j]] => i = j

\* C18 amended: in a first run whose transfers all succeed, a plan entry the
\* loop has gone through was transferred, once, exactly when no earlier plan
\* entry has its destination; the transfers are as many as the different
\* destinations, and every one of these is on disk.
C18_OneTransferPerDestination ==
    ~Crashed =>
        /\ Len(transfers) = Cardinality(DestsTransferred)
        /\ DestsTransferred \subseteq disk
        /\ \A i \in Transferred :
              Cardinality({k \in 1..Len(transfers) :
                               transfers[k] = found[i]}) =
                  IF \E j \in 1..(i - 1) : Dest[found[j]] = Dest[found[i]]
                  THEN 0
                  ELSE 1

\* C18 witness: the transfer loop has gone through a plan of three entries,
\* two of them with one file name: two transfers, two files.
C18_Witness ==
    /\ TransferComplete
    /\ Len(found) = 3
    /\ Len(transfers) = 2
    /\ Cardinality(disk) = 2
    /\ \E i, j \in 1..Len(found) : i < j /\ Dest[found[i]] = Dest[found[j]]

====
